---------------------------- MODULE Spec2Model ----------------------------
(***************************************************************************)
(* The crop analysis service of src/app.py: the session (login, logout),   *)
(* the /predict handler with its plant-image gate, its choice of a         *)
(* prediction and a confidence from the process-wide random module, and    *)
(* the save of the result in the CropPrediction table.                     *)
(*                                                                         *)
(* Units.  A ratio of pixels is kept exact as the pair (count, total).     *)
(* A confidence is kept in hundredths: the value 0.87 that /predict        *)
(* returns is the integer 87 here, so the number 73.0 is 7300.             *)
(***************************************************************************)
EXTENDS Integers, Sequences, FiniteSets, TLC

VARIABLES
    session,      \* the browser's session cookie: NoUser or a username
    users,        \* the User table, a sequence of rows in insertion order
    predictions,  \* the CropPrediction table, a sequence of rows in insertion order
    rng,          \* the state of the process-wide generator of module random
    pc,           \* pc[r]: where request r is in /predict
    cookie,       \* cookie[r]: the session request r was sent with
    upload,       \* upload[r]: the file request r opened, with the counts
                  \* is_plant_image took of it (NoUpload: none opened)
    resp,         \* resp[r]: the response of request r (NoResponse: none yet)
    exchange      \* the last request the browser (or the operator, for
                  \* create_user) made outside /predict, with its answer

vars ==
    <<session, users, predictions, rng, pc, cookie, upload, resp, exchange>>

-----------------------------------------------------------------------------
(* Bounds of the model *)

\* number of /predict requests in flight together (Spec)
MaxRequests == 2
\* largest pixel count of an uploaded image under SeqSpec
MaxPixels == 20
\* length of the cycle of generator states
RngPeriod == 5

-----------------------------------------------------------------------------
(* Pixels and images *)

\* Sample RGB triples: clearly green, green by less than 10%, white, and a
\* pixel whose green exceeds red but not blue.
StrongGreen == [r |-> 50, g |-> 200, b |-> 50]

FaintGreen == [r |-> 100, g |-> 105, b |-> 100]

White == [r |-> 250, g |-> 250, b |-> 250]

Sky == [r |-> 50, g |-> 100, b |-> 200]

Pixels == {StrongGreen, FaintGreen, White, Sky}

\* A decoded image is the number of pixels of each colour: np.sum and
\* width * height do not depend on where a pixel lies.
ImageOf(sg, fg, wh, sk) ==
    [p \in Pixels |-> IF p = StrongGreen THEN sg
                      ELSE IF p = FaintGreen THEN fg
                      ELSE IF p = White THEN wh ELSE sk]

EmptyImage == ImageOf(0, 0, 0, 0)

\* the sum of f[p] over the pixels
SumOver(f) == f[StrongGreen] + f[FaintGreen] + f[White] + f[Sky]

\* width * height
TotalPixels(image) == SumOver(image)

\* the images of exactly n pixels
ImagesOfSize(n) ==
    UNION { UNION { { ImageOf(sg, fg, wh, n - sg - fg - wh) :
                      wh \in 0..(n - sg - fg) } :
                    fg \in 0..(n - sg) } :
            sg \in 0..n }

ImagesUpTo(n) == UNION { ImagesOfSize(k) : k \in 1..n }

\* the images of a single pixel, one of each colour
SmallImages == ImagesOfSize(1)

AllImages == ImagesUpTo(MaxPixels)

\* What Image.open yields for the uploaded bytes: "ok" with its pixels,
\* "truncated" (the header opens, the pixel data fails to load on first use)
\* or "corrupt" (Image.open raises).
Opened(kind, pixels) == [kind |-> kind, pixels |-> pixels]

-----------------------------------------------------------------------------
(* is_plant_image *)

\* percent of predominantly green pixels an image must exceed
PlantThreshold == 15

\* Mutant: the comparison with the blue channel is left out.
GreenOverRedOnly(p) == p.g > p.r

\* (pixels[:,:,1] > pixels[:,:,0]) & (pixels[:,:,1] > pixels[:,:,2])
PredominantlyGreen(p) == p.g > p.r /\ p.g > p.b

\* Mutant: the two comparisons are summed one by one, not their conjunction.
green_pixels_per_comparison(pixels) ==
    SumOver([p \in Pixels |-> IF p.g > p.r THEN pixels[p] ELSE 0])
    + SumOver([p \in Pixels |-> IF p.g > p.b THEN pixels[p] ELSE 0])

\* np.sum of the mask above
green_pixels(pixels) ==
    SumOver([p \in Pixels |-> IF PredominantlyGreen(p) THEN pixels[p] ELSE 0])

\* green_percentage > 15, with green_percentage = green_pixels / total * 100
GreenPercentageAbove(pixels, percent) ==
    green_pixels(pixels) * 100 > percent * TotalPixels(pixels)

\* Mutant: the threshold is met rather than exceeded (>= 15).
is_plant_image_at_threshold(image) ==
    IF image.kind # "ok" THEN FALSE
    ELSE green_pixels(image.pixels) * 100
            >= PlantThreshold * TotalPixels(image.pixels)

\* Mutant: the percentage is taken of the pixels that are not green.
is_plant_image_of_the_rest(image) ==
    IF image.kind # "ok" THEN FALSE
    ELSE green_pixels(image.pixels) * 100
            > PlantThreshold * (TotalPixels(image.pixels)
                                - green_pixels(image.pixels))

\* The exception handler returns False when the pixel data cannot be loaded.
is_plant_image(image) ==
    IF image.kind # "ok" THEN FALSE
    ELSE GreenPercentageAbove(image.pixels, PlantThreshold)

-----------------------------------------------------------------------------
(* The prediction library and the random module *)

prediction_types ==
    << [name |-> "Healthy",
        treatment |-> "Continue current care routine. Monitor for any changes. Apply fertilizer as scheduled. Maintain proper watering schedule."],
       [name |-> "Early Blight",
        treatment |-> "Apply copper-based fungicide. Remove affected leaves. Improve air circulation. Avoid overhead watering."],
       [name |-> "Late Blight",
        treatment |-> "Apply metalaxyl-based fungicide. Remove and destroy infected plants. Ensure proper drainage. Rotate crops annually."],
       [name |-> "Powdery Mildew",
        treatment |-> "Apply sulfur-based fungicide. Increase air circulation. Reduce humidity if possible. Remove affected parts."],
       [name |-> "Leaf Spot",
        treatment |-> "Apply chlorothalonil fungicide. Remove affected leaves. Avoid overhead watering. Ensure proper spacing between plants."] >>

\* random.uniform(0.75, 0.98), in hundredths
ConfidenceLow == 75

ConfidenceHigh == 98

\* The generator is one process-wide object: every draw reads its state and
\* advances it.
NextRng(s) == (s + 1) % RngPeriod

\* random.choice(seq): seq[_randbelow(len(seq))]
RandomChoice(s, seq) == seq[(s % Len(seq)) + 1]

\* Values random.random() takes in [0, 1), in thousandths.
RandomSamples == <<0, 413, 999>>

RandomUnit(s) == RandomSamples[(s % Len(RandomSamples)) + 1]

\* random.uniform(a, b) = a + (b - a) * random(), in units of 1/100000
\* for a and b in hundredths
RandomUniform(s, a, b) == a * 1000 + (b - a) * RandomUnit(s)

\* round(x, 2): x in units of 1/100000, the result in hundredths
Round2(x) == (x + 500) \div 1000

-----------------------------------------------------------------------------
(* Responses *)

NoUser == "<no session>"

NoResponse ==
    [status |-> 0, error |-> "", prediction |-> "", confidence |-> 0,
     treatment |-> ""]

\* jsonify({"error": msg}), status
ErrorResponse(status, msg) ==
    [status |-> status, error |-> msg, prediction |-> "", confidence |-> 0,
     treatment |-> ""]

NotAPlantMessage == "Please upload only plant, crop, or leaf images"

\* Mutant: the treatment is read from the first entry of the library.
ResultFirstTreatment(selected_prediction, confidence) ==
    [status |-> 200, error |-> "",
     prediction |-> selected_prediction.name,
     confidence |-> confidence,
     treatment |-> prediction_types[1].treatment]

\* The result dictionary of predict, returned with status 200.
Result(selected_prediction, confidence) ==
    [status |-> 200, error |-> "",
     prediction |-> selected_prediction.name,
     confidence |-> confidence,
     treatment |-> selected_prediction.treatment]

-----------------------------------------------------------------------------
(* Requests *)

Requests == DOMAIN pc

Usernames == {"123456", "admin"}

Passwords == {"1234", "wrong"}

Filenames == {"", "leaf.jpg"}

ContentTypes == {"image/jpeg", "text/plain"}

\* file.content_type.startswith('image/')
IsImageType(content_type) == content_type = "image/jpeg"

\* The files a request can carry, over the images of a given set: every
\* way of failing the checks made before the file is opened, and a file
\* that passes them with each content Image.open can meet.
UploadsOver(images) ==
    [files : BOOLEAN, filename : Filenames, content_type : ContentTypes,
     image : {Opened("corrupt", EmptyImage)}]
    \cup
    [files : {TRUE}, filename : {"leaf.jpg"}, content_type : {"image/jpeg"},
     image : {Opened("truncated", EmptyImage)}
             \cup {Opened("ok", i) : i \in images}]

NoUpload ==
    [filename |-> "", kind |-> "none", pixels |-> EmptyImage,
     green_pixels |-> 0, total_pixels |-> 0]

\* The returns of predict that come before the image is opened; NoResponse
\* when the request passes them.
Validate(c, up) ==
    IF c = NoUser THEN ErrorResponse(401, "Unauthorized access")
    ELSE IF ~up.files THEN ErrorResponse(400, "No image uploaded")
    ELSE IF up.filename = "" THEN ErrorResponse(400, "No image selected")
    ELSE IF ~IsImageType(up.content_type)
         THEN ErrorResponse(400, "File must be an image")
    ELSE NoResponse

\* The outcome of predict up to and including the gate: an error response,
\* or NoResponse when the image goes on to the prediction.
GateResponse(c, up) ==
    LET early == Validate(c, up)
    IN IF early # NoResponse THEN early
    ELSE IF up.image.kind = "corrupt"
         THEN ErrorResponse(500, "Error processing image")
    ELSE IF ~is_plant_image(up.image) THEN ErrorResponse(400, NotAPlantMessage)
    ELSE NoResponse

\* What predict holds of the file once the gate has run: what Image.open
\* met, the pixel buffer, and the locals green_pixels and total_pixels of
\* is_plant_image (0 when it did not get to compute them).
Decoded(c, up) ==
    IF Validate(c, up) # NoResponse THEN NoUpload
    ELSE IF up.image.kind = "ok"
    THEN [filename |-> up.filename, kind |-> "ok",
          pixels |-> up.image.pixels,
          green_pixels |-> green_pixels(up.image.pixels),
          total_pixels |-> TotalPixels(up.image.pixels)]
    ELSE [filename |-> up.filename, kind |-> up.image.kind,
          pixels |-> EmptyImage, green_pixels |-> 0, total_pixels |-> 0]

\* selected_prediction = random.choice(prediction_types)
SelectedPrediction(s) == RandomChoice(s, prediction_types)

\* Mutant: a jitter drawn from [-0.02, +0.02] is added to the confidence.
ConfidenceJittered(s) ==
    Round2(RandomUniform(s, ConfidenceLow, ConfidenceHigh)
           + 4 * RandomUnit(s) - 2000)

\* confidence = round(random.uniform(0.75, 0.98), 2)
Confidence(s) == Round2(RandomUniform(s, ConfidenceLow, ConfidenceHigh))

\* User.query.filter_by(username=username).first(): the rows found
UsersNamed(username) ==
    { i \in 1..Len(users) : users[i].username = username }

\* the first row User.query.filter_by(username=username).first() finds
FirstUserNamed(username) ==
    users[CHOOSE i \in UsersNamed(username) :
             \A j \in UsersNamed(username) : i <= j]

\* the row predict builds from its result
PredictionRow(table, user, filename, result) ==
    [id |-> Len(table) + 1,
     user_id |-> user.id,
     image_name |-> filename,
     prediction |-> result.prediction,
     confidence |-> result.confidence,
     treatment |-> result.treatment]

\* Mutant: the row is added to the session and added again before the commit.
SavePredictionTwice(table, username, filename, result, dbOk) ==
    IF UsersNamed(username) = {} \/ ~dbOk THEN table
    ELSE LET user == FirstUserNamed(username)
             once == Append(table,
                            PredictionRow(table, user, filename, result))
         IN Append(once, PredictionRow(once, user, filename, result))

\* The save of predict: a row is added unless the user lookup finds nobody
\* (user.id raises) or the commit fails; either failure is caught and logged.
SavePrediction(table, username, filename, result, dbOk) ==
    IF UsersNamed(username) = {} \/ ~dbOk THEN table
    ELSE Append(table, PredictionRow(table, FirstUserNamed(username),
                                     filename, result))

\* .limit(20) of api_history
HistoryLimit == 20

RECURSIVE Reversed(_)
Reversed(seq) ==
    IF seq = <<>> THEN <<>> ELSE Append(Reversed(Tail(seq)), Head(seq))

\* GET /api/history for a session of the given user: the user's rows, newest
\* first, the first 20 of them.  Rows are stamped by the database when they
\* are inserted, so the newest row is the last inserted.
api_history(table, username) ==
    IF username = NoUser
    THEN [status |-> 401, predictions |-> <<>>]
    ELSE IF UsersNamed(username) = {}
    THEN [status |-> 500, predictions |-> <<>>]
    ELSE LET user == FirstUserNamed(username)
             own == Reversed(SelectSeq(table,
                                       LAMBDA row : row.user_id = user.id))
         IN [status |-> 200,
             predictions |-> IF Len(own) <= HistoryLimit THEN own
                             ELSE SubSeq(own, 1, HistoryLimit)]

-----------------------------------------------------------------------------
(* Actions *)

\* Mutant: the password is not compared.
LoginSessionAnyPassword(sess, username, password) ==
    IF username = "123456" THEN username ELSE sess

\* session['username'] = username when the credentials are the expected ones
LoginSession(sess, username, password) ==
    IF username = "123456" /\ password = "1234" THEN username ELSE sess

\* POST /login
Login ==
    \E username \in Usernames, password \in Passwords :
        /\ session' = LoginSession(session, username, password)
        /\ UNCHANGED <<users, predictions, rng, pc, cookie, upload, resp, exchange>>

\* GET /logout
Logout ==
    /\ session' = NoUser
    /\ UNCHANGED <<users, predictions, rng, pc, cookie, upload, resp, exchange>>

\* Mutant: a rejected request is put through the handler again.
ArriveRetry(r) ==
    /\ pc[r] \in {"idle", "Rejected"}
    /\ pc' = [pc EXCEPT ![r] = "Gating"]
    /\ cookie' = [cookie EXCEPT ![r] = session]
    /\ UNCHANGED <<session, users, predictions, rng, upload, resp, exchange>>

\* A POST /predict reaches the handler, carrying the browser's session.
Arrive(r) ==
    /\ pc[r] = "idle"
    /\ pc' = [pc EXCEPT ![r] = "Gating"]
    /\ cookie' = [cookie EXCEPT ![r] = session]
    /\ UNCHANGED <<session, users, predictions, rng, upload, resp, exchange>>

\* Mutant: the record is saved as soon as the file is opened, before the
\* plant-image check.
GateStepSavingFirst(r, up) ==
    /\ pc[r] = "Gating"
    /\ upload' = [upload EXCEPT ![r] = Decoded(cookie[r], up)]
    /\ predictions' =
          IF Validate(cookie[r], up) = NoResponse /\ up.image.kind = "ok"
          THEN SavePrediction(predictions, cookie[r], up.filename,
                              Result(SelectedPrediction(rng), ConfidenceLow),
                              TRUE)
          ELSE predictions
    /\ LET response == GateResponse(cookie[r], up)
       IN IF response = NoResponse
          THEN /\ pc' = [pc EXCEPT ![r] = "Matching"]
               /\ resp' = resp
          ELSE /\ pc' = [pc EXCEPT ![r] = "Rejected"]
               /\ resp' = [resp EXCEPT ![r] = response]
    /\ UNCHANGED <<session, users, rng, cookie, exchange>>

\* predict from its first line to the plant-image check.
GateStep(r, up) ==
    /\ pc[r] = "Gating"
    /\ upload' = [upload EXCEPT ![r] = Decoded(cookie[r], up)]
    /\ LET response == GateResponse(cookie[r], up)
       IN IF response = NoResponse
          THEN /\ pc' = [pc EXCEPT ![r] = "Matching"]
               /\ resp' = resp
          ELSE /\ pc' = [pc EXCEPT ![r] = "Rejected"]
               /\ resp' = [resp EXCEPT ![r] = response]
    /\ UNCHANGED <<session, users, predictions, rng, cookie, exchange>>

SmallUploads == UploadsOver(SmallImages)

AllUploads == UploadsOver(AllImages)

Gate(r) == pc[r] = "Gating" /\ \E up \in SmallUploads : GateStep(r, up)

GateAny(r) == pc[r] = "Gating" /\ \E up \in AllUploads : GateStep(r, up)

\* Mutant: a failure of the save reaches the outer handler of predict.
MatchFailingWithSave(r) ==
    /\ pc[r] = "Matching"
    /\ \E dbOk \in BOOLEAN :
        LET result == Result(SelectedPrediction(rng), Confidence(NextRng(rng)))
            saved == SavePrediction(predictions, cookie[r],
                                    upload[r].filename, result, dbOk)
        IN /\ predictions' = saved
           /\ IF saved = predictions
              THEN /\ resp' = [resp EXCEPT ![r] =
                                 ErrorResponse(500, "Error processing image")]
                   /\ pc' = [pc EXCEPT ![r] = "Rejected"]
              ELSE /\ resp' = [resp EXCEPT ![r] = result]
                   /\ pc' = [pc EXCEPT ![r] = "Classified"]
    /\ rng' = NextRng(NextRng(rng))
    /\ UNCHANGED <<session, users, cookie, upload, exchange>>

\* predict from the mock prediction to the return of the result.
Match(r) ==
    /\ pc[r] = "Matching"
    /\ \E dbOk \in BOOLEAN :
        LET result == Result(SelectedPrediction(rng), Confidence(NextRng(rng)))
        IN /\ resp' = [resp EXCEPT ![r] = result]
           /\ predictions' = SavePrediction(predictions, cookie[r],
                                            upload[r].filename, result, dbOk)
    /\ rng' = NextRng(NextRng(rng))
    /\ pc' = [pc EXCEPT ![r] = "Classified"]
    /\ UNCHANGED <<session, users, cookie, upload, exchange>>

-----------------------------------------------------------------------------
(* Specifications *)

\* The row the start-up code adds when the table has no user '123456'.
\* no request made yet
NoExchange ==
    [endpoint |-> "", cookie |-> NoUser, username |-> "", password |-> "",
     status |-> 0, location |-> "", body |-> "", rows |-> <<>>, total |-> 0]

DefaultUser == [id |-> 1, username |-> "123456", password |-> "1234"]

\* After start-up: the tables exist with the default user, or the start-up
\* block failed (its exception is logged and dropped) and there is no user.
InitOver(requests) ==
    /\ session = NoUser
    /\ users \in {<<>>, <<DefaultUser>>}
    /\ predictions = <<>>
    /\ rng \in 0..(RngPeriod - 1)
    /\ pc = [r \in requests |-> "idle"]
    /\ cookie = [r \in requests |-> NoUser]
    /\ upload = [r \in requests |-> NoUpload]
    /\ resp = [r \in requests |-> NoResponse]
    /\ exchange = NoExchange

Init == InitOver(1..MaxRequests)

Next ==
    \/ Login
    \/ Logout
    \/ \E r \in Requests : Arrive(r)
    \/ \E r \in Requests : Gate(r)
    \/ \E r \in Requests : Match(r)

\* Requests served by concurrent threads, over images of a single pixel.
Spec == Init /\ [][Next]_vars

InitSeq == InitOver({1})

NextSeq ==
    \/ Login
    \/ Logout
    \/ \E r \in Requests : Arrive(r)
    \/ \E r \in Requests : GateAny(r)
    \/ \E r \in Requests : Match(r)

\* One request, over images of up to MaxPixels pixels.
SeqSpec == InitSeq /\ [][NextSeq]_vars

\* A handler is straight-line code on its own thread: once a request has
\* reached it, each of its steps is taken.
FairSpec ==
    /\ Spec
    /\ \A r \in 1..MaxRequests : WF_vars(Gate(r)) /\ WF_vars(Match(r))

-----------------------------------------------------------------------------
(* The classifier the specification describes: its five colour predicates  *)
(* and the two reference profiles it gives.                                *)

Symptoms == {"green", "brown_spots", "yellowing", "white_dust", "rusty_spots"}

\* G > R * 1.1 and G > B * 1.1, and the other four predicates
SymptomHolds(symptom, p) ==
    CASE symptom = "green"       -> 10 * p.g > 11 * p.r /\ 10 * p.g > 11 * p.b
      [] symptom = "brown_spots" -> p.r > 90 /\ p.g > 60 /\ p.b < 90
      [] symptom = "yellowing"   -> p.r > 150 /\ p.g > 150 /\ p.b < 100
      [] symptom = "white_dust"  -> p.r > 200 /\ p.g > 200 /\ p.b > 200
      [] symptom = "rusty_spots" -> p.r > 150 /\ p.g > 80 /\ p.b < 80

\* the number of pixels satisfying a symptom's predicate
SymptomCount(symptom, pixels) ==
    SumOver([p \in Pixels |->
                IF SymptomHolds(symptom, p) THEN pixels[p] ELSE 0])

\* Reference vectors, in percent: Healthy {green: 0.9} and
\* Powdery Mildew {white_dust: 0.6, green: 0.4}.
Profiles ==
    [d \in {"Healthy", "Powdery Mildew"} |->
        IF d = "Healthy" THEN [s \in {"green"} |-> 90]
        ELSE [s \in {"white_dust", "green"} |->
                 IF s = "white_dust" THEN 60 ELSE 40]]

Abs(x) == IF x < 0 THEN 0 - x ELSE x

RECURSIVE SumOfSet(_, _)
SumOfSet(f, S) ==
    IF S = {} THEN 0
    ELSE LET x == CHOOSE y \in S : TRUE IN f[x] + SumOfSet(f, S \ {x})

\* error = sum of |image ratio - profile ratio| over the profile's own keys,
\* times 100 * (number of pixels) so that it stays an integer
ScaledError(pixels, disease) ==
    LET profile == Profiles[disease]
    IN SumOfSet([s \in DOMAIN profile |->
                    Abs(100 * SymptomCount(s, pixels)
                        - profile[s] * TotalPixels(pixels))],
                DOMAIN profile)

\* the place of a disease in the library's enumeration order
IndexOf(disease) ==
    CHOOSE i \in 1..Len(prediction_types) : prediction_types[i].name = disease

-----------------------------------------------------------------------------
(* Claims *)

Passed(r) == pc[r] \in {"Matching", "Classified"}

HasImage(r) == upload[r].kind = "ok"

\* C1 as stated: a request whose buffer has fewer than 20% of pixels with
\* G > R * 1.1 and G > B * 1.1 ends in the not-a-plant rejection and never
\* reaches the matching stage.
C1_GateAt20PercentWithMargin ==
    \A r \in Requests :
        (HasImage(r)
         /\ 100 * SymptomCount("green", upload[r].pixels)
                < 20 * TotalPixels(upload[r].pixels))
        => /\ ~Passed(r)
           /\ resp[r] = ErrorResponse(400, NotAPlantMessage)

\* C1 amended: a request whose buffer has at most 15% of pixels with G > R
\* and G > B ends in the not-a-plant rejection (status 400) and never reaches
\* the matching stage.
C1_LeafGate ==
    \A r \in Requests :
        LET px == upload[r].pixels
            green == px[StrongGreen] + px[FaintGreen]
        IN (HasImage(r) /\ 100 * green <= 15 * TotalPixels(px))
           => /\ pc[r] = "Rejected"
              /\ resp[r] = ErrorResponse(400, NotAPlantMessage)

\* C1 witness: a buffer with exactly 15% of green pixels has been rejected.
C1_Witness ==
    \E r \in Requests :
        /\ upload[r].pixels = ImageOf(2, 1, 7, 10)
        /\ pc[r] = "Rejected"
        /\ resp[r].error = NotAPlantMessage

\* the one colour of a buffer whose pixels are all alike
OneColour(r, p) ==
    /\ HasImage(r)
    /\ upload[r].pixels[p] = TotalPixels(upload[r].pixels)

\* C2 as stated: the gate counts a pixel as green exactly when
\* 10 * G > 11 * R and 10 * G > 11 * B: a buffer of one colour passes the
\* gate exactly when that colour satisfies it.
C2_GreenWithMargin ==
    \A r \in Requests : \A p \in Pixels :
        (OneColour(r, p) /\ pc[r] # "Gating")
        => (Passed(r) <=> (10 * p.g > 11 * p.r /\ 10 * p.g > 11 * p.b))

\* C2 amended: the gate counts a pixel as green exactly when G > R and
\* G > B, with no margin: a buffer of one colour passes the gate exactly
\* when that colour satisfies it.
C2_GreenPredicate ==
    \A r \in Requests : \A p \in Pixels :
        (OneColour(r, p) /\ pc[r] # "Gating")
        => (Passed(r) <=> (p.g > p.r /\ p.g > p.b))

\* C2 witness: a buffer of pixels green by less than 10% has passed the gate.
C2_Witness ==
    \E r \in Requests : OneColour(r, FaintGreen) /\ Passed(r)

\* C3: a request enters at Gating, moves only Gating -> Rejected or
\* Gating -> Matching -> Classified, never leaves Rejected or Classified,
\* gets its response on entering one of them and keeps it, and every request
\* in Gating reaches Rejected or Classified.
C3_Pipeline ==
    /\ [][\A r \in Requests :
            /\ pc'[r] # pc[r]
               => <<pc[r], pc'[r]>> \in
                    { <<"idle", "Gating">>, <<"Gating", "Rejected">>,
                      <<"Gating", "Matching">>, <<"Matching", "Classified">> }
            /\ resp'[r] # resp[r]
               => /\ pc[r] \in {"Gating", "Matching"}
                  /\ pc'[r] \in {"Rejected", "Classified"}]_vars
    /\ \A r \in 1..MaxRequests :
          (pc[r] = "Gating") ~> (pc[r] \in {"Rejected", "Classified"})

\* C3 witness: one request has ended Classified and another Rejected.
C3_Witness ==
    \E r1, r2 \in Requests :
        /\ pc[r1] = "Classified" /\ resp[r1].status = 200
        /\ pc[r2] = "Rejected" /\ resp[r2].status = 400

Classified(r) == pc[r] = "Classified"

\* a Classified request whose buffer has at least 20% of pixels green by the
\* margin of 10%, and whose disease has a reference profile
Profiled(r) ==
    /\ Classified(r)
    /\ 100 * SymptomCount("green", upload[r].pixels)
          >= 20 * TotalPixels(upload[r].pixels)
    /\ resp[r].prediction \in DOMAIN Profiles

\* C4: the disease returned has an error no greater than that of any other
\* disease of the library (over the diseases whose profile is given).
C4_MinimalError ==
    \A r \in Requests :
        Profiled(r)
        => \A d \in DOMAIN Profiles :
              ScaledError(upload[r].pixels, resp[r].prediction)
                 <= ScaledError(upload[r].pixels, d)

\* C5: when diseases have equal error on a buffer, the one returned is the
\* first of them in the library's order, the same on every run on that buffer.
C5_FirstAmongTies ==
    \A r1, r2 \in Requests :
        (Profiled(r1) /\ Profiled(r2)
         /\ upload[r1].pixels = upload[r2].pixels)
        => /\ resp[r1].prediction = resp[r2].prediction
           /\ \A d \in DOMAIN Profiles :
                 ScaledError(upload[r1].pixels, d)
                    = ScaledError(upload[r1].pixels, resp[r1].prediction)
                 => IndexOf(resp[r1].prediction) <= IndexOf(d)

\* C6: two calls on the same buffer return the same disease name and the
\* same treatment, and confidences no further apart than the jitter allows
\* (two draws from [-2, +2]: 4 points).
C6_SameBufferSameResult ==
    \A r1, r2 \in Requests :
        (Classified(r1) /\ Classified(r2)
         /\ upload[r1].pixels = upload[r2].pixels)
        => /\ resp[r1].prediction = resp[r2].prediction
           /\ resp[r1].treatment = resp[r2].treatment
           /\ Abs(resp[r1].confidence - resp[r2].confidence) <= 4

C9_ConfidenceFromError ==
    \A r \in Requests :
        Profiled(r)
        => LET n == TotalPixels(upload[r].pixels)
               fit == 98 * n - ScaledError(upload[r].pixels, resp[r].prediction)
           IN resp[r].confidence * n = IF fit > 75 * n THEN fit ELSE 75 * n

\* C10: a Classified result names a disease of the library, and its
\* treatment is the text stored with that disease.
C10_ResultFromLibrary ==
    \A r \in Requests :
        Classified(r)
        => /\ \E i \in 1..Len(prediction_types) :
                 prediction_types[i].name = resp[r].prediction
           /\ \A i \in 1..Len(prediction_types) :
                 prediction_types[i].name = resp[r].prediction
                 => prediction_types[i].treatment = resp[r].treatment

\* C10 witness: a request has been classified as the last entry of the
\* library and carries that entry's treatment.
C10_Witness ==
    \E r \in Requests :
        /\ Classified(r)
        /\ resp[r].prediction = "Leaf Spot"
        /\ resp[r].treatment = prediction_types[5].treatment

\* a buffer in which no pixel satisfies a symptom's predicate
NoneHas(symptom, pixels) == SymptomCount(symptom, pixels) = 0

\* C11: a buffer in which every pixel satisfies the green predicate and none
\* any other is classified Healthy.
C11_AllGreenIsHealthy ==
    \A r \in Requests :
        (Classified(r)
         /\ SymptomCount("green", upload[r].pixels)
               = TotalPixels(upload[r].pixels)
         /\ \A s \in Symptoms \ {"green"} : NoneHas(s, upload[r].pixels))
        => resp[r].prediction = "Healthy"

\* C12: a buffer with 25% of pixels of white dust, 40% green and the rest
\* satisfying no predicate is classified Powdery Mildew.
C12_WhiteDustIsPowderyMildew ==
    \A r \in Requests :
        (Classified(r)
         /\ 100 * SymptomCount("white_dust", upload[r].pixels)
               = 25 * TotalPixels(upload[r].pixels)
         /\ 100 * SymptomCount("green", upload[r].pixels)
               = 40 * TotalPixels(upload[r].pixels)
         /\ \A s \in Symptoms \ {"green", "white_dust"} :
               NoneHas(s, upload[r].pixels))
        => resp[r].prediction = "Powdery Mildew"

\* The ratios predict has computed for an upload once the plant check is
\* done, as numerators over total_pixels: is_plant_image computes the green
\* mask and nothing else.
SymptomVector(up) == [s \in {"green"} |-> up.green_pixels]

\* C13: on every call that passes the gate the vector has all five keys, each
\* the number of pixels satisfying that symptom's predicate over the total
\* (zero when no pixel satisfies it).
C13_VectorComplete ==
    \A r \in Requests :
        Passed(r) =>
            /\ DOMAIN SymptomVector(upload[r]) = Symptoms
            /\ \A s \in Symptoms :
                  SymptomVector(upload[r])[s]
                     = SymptomCount(s, upload[r].pixels)

\* C14: for every decoded, non-empty buffer each computed ratio lies in
\* [0, 1]: the count of matching pixels is between 0 and the total pixel
\* count, which is positive.
C14_RatioRange ==
    \A r \in Requests :
        HasImage(r) =>
            /\ upload[r].total_pixels > 0
            /\ \A s \in DOMAIN SymptomVector(upload[r]) :
                  /\ 0 <= SymptomVector(upload[r])[s]
                  /\ SymptomVector(upload[r])[s] <= upload[r].total_pixels

\* a buffer of several colours, all of them predominantly green
C14_Witness ==
    \E r \in Requests :
        /\ HasImage(r)
        /\ upload[r].pixels[StrongGreen] > 0
        /\ upload[r].pixels[FaintGreen] > 0
        /\ SymptomVector(upload[r])["green"] = upload[r].total_pixels
        /\ upload[r].total_pixels = MaxPixels

\* the file of request r could not be decoded into a pixel buffer: Image.open
\* refused it, or loading its pixel data failed
Undecodable(r) == upload[r].kind \in {"corrupt", "truncated"}

\* C15: a file that cannot be decoded is answered with the image-processing
\* error, never with the not-a-plant rejection nor with a result.
C15_ErrorKindsDistinct ==
    \A r \in Requests :
        Undecodable(r) =>
            /\ pc[r] = "Rejected"
            /\ resp[r] = ErrorResponse(500, "Error processing image")

\* request r takes the prediction step of predict
Classifies(r) == pc[r] = "Matching" /\ pc'[r] = "Classified"

\* request r takes the step of predict that ends at the plant-image check
Gates(r) == pc[r] = "Gating" /\ pc'[r] # "Gating"

\* C17: the gate and the classification of one request leave its pixel
\* buffer as decoded and change no state shared between requests: the
\* generator of the random module and the buffers of the other requests stay
\* as they were.  (The library is a literal; the save is not the pipeline.)
C17_PipelinePure ==
    [][\A r \in Requests :
          /\ Gates(r) =>
                /\ rng' = rng
                /\ \A q \in Requests \ {r} : upload'[q] = upload[q]
          /\ Classifies(r) =>
                /\ rng' = rng
                /\ upload' = upload]_vars

\* the number of requests that have taken the prediction step
NumClassified == Cardinality({r \in Requests : Classified(r)})

\* the generator state before any request drew from it: each prediction step
\* draws twice
InitialRng == (rng + NumClassified * (RngPeriod - 2)) % RngPeriod

\* C18: whatever the interleaving, the result of each classified request is
\* the one it gets running alone, i.e. drawn from the generator as no other
\* request has advanced it.
C18_ResultAsIfAlone ==
    \A r \in Requests :
        Classified(r) =>
            resp[r] = Result(SelectedPrediction(InitialRng),
                             Confidence(NextRng(InitialRng)))

\* the rows GET /api/history returns to the user of request r
HistoryOf(r, table) ==
    LET rows == api_history(table, cookie[r]).predictions
    IN {rows[i] : i \in 1..Len(rows)}

\* row carries what was answered to request r and belongs to its user
RecordOf(r, row, result) ==
    /\ row.user_id = FirstUserNamed(cookie[r]).id
    /\ row.prediction = result.prediction
    /\ row.confidence = result.confidence
    /\ row.treatment = result.treatment

\* C19: the prediction step of a request either saves nothing (the save
\* failed) or appends exactly one row to the predictions, owned by the user of
\* the request's session and carrying the prediction, confidence and
\* treatment of the returned result; that row is in that user's history.
C19_OneRecordPerResult ==
    [][\A r \in Requests :
          Classifies(r) =>
             \/ predictions' = predictions
             \/ /\ Len(predictions') = Len(predictions) + 1
                /\ SubSeq(predictions', 1, Len(predictions)) = predictions
                /\ RecordOf(r, predictions'[Len(predictions')], resp'[r])
                /\ predictions'[Len(predictions')]
                      \in HistoryOf(r, predictions')]_vars

\* every request has been classified and saved, and the history of the user
\* shows the record of each
C19_Witness ==
    /\ Len(predictions) = Cardinality(Requests)
    /\ \A r \in Requests :
          /\ Classified(r)
          /\ \E row \in HistoryOf(r, predictions) :
                RecordOf(r, row, resp[r])

\* the plant check has been made on the decoded image of request r
Checked(r) == HasImage(r) /\ pc[r] # "Gating"

\* C20: is_plant_image answers True exactly when strictly more than 15% of
\* the pixels have G > R and G > B; an image with exactly 15% or fewer is
\* rejected.
C20_PlantExactlyAbove15Percent ==
    \A r \in Requests :
        Checked(r) =>
            LET px == upload[r].pixels
                share == 100 * (px[StrongGreen] + px[FaintGreen])
            IN /\ Passed(r) <=> share > 15 * TotalPixels(px)
               /\ ~Passed(r) <=> resp[r] = ErrorResponse(400, NotAPlantMessage)

\* 2 green pixels of 13 (15.4%) pass the check, by faintly green pixels too
C20_Witness ==
    \E r \in Requests :
        /\ upload[r].pixels = ImageOf(1, 1, 5, 6)
        /\ Passed(r)

\* request r has ended in an error outcome
Rejected(r) == pc[r] = "Rejected"

\* C21: a /predict request that ends in an error outcome adds no prediction
\* record: the step that rejects it leaves the table as it was.
C21_RejectedSavesNothing ==
    [][\A r \in Requests :
          (Gates(r) /\ Rejected(r)') => predictions' = predictions]_vars

\* a request has been rejected as not a plant after another one was saved,
\* and the table holds the one record of the other
C21_Witness ==
    \E r, q \in Requests :
        /\ Rejected(r)
        /\ resp[r] = ErrorResponse(400, NotAPlantMessage)
        /\ Classified(q)
        /\ Len(predictions) = 1

\* the session of request r names no row of the user table
NoUserRow(r) == UsersNamed(cookie[r]) = {}

\* C22: the prediction step answers the result as a success whether or not
\* the save worked; a save that fails because the session's username has no
\* user row adds no record, and no save adds more than one.
C22_SaveFailureNotFatal ==
    [][\A r \in Requests :
          pc[r] = "Matching" /\ pc'[r] # "Matching" =>
             /\ Classified(r)'
             /\ resp'[r] = Result(SelectedPrediction(rng),
                                  Confidence(NextRng(rng)))
             /\ NoUserRow(r) => predictions' = predictions
             /\ Len(predictions') <= Len(predictions) + 1]_vars

\* a request of a logged-in session without a user row has been answered
\* its result, and nothing was saved
C22_Witness ==
    \E r \in Requests :
        /\ Classified(r)
        /\ resp[r].status = 200
        /\ cookie[r] = "123456"
        /\ NoUserRow(r)
        /\ predictions = <<>>

-----------------------------------------------------------------------------
(* The other endpoints, as one browser calls them one after the other *)

\* the pages that ask for a session
GatedPages == {"dashboard", "capture", "upload", "result", "history"}

Pages == GatedPages \cup {"index"}

\* .limit(5) of stats
StatsLimit == 5

Exchange(endpoint, sess) ==
    [NoExchange EXCEPT !.endpoint = endpoint, !.cookie = sess]

\* redirect(url_for(...))
Redirect(endpoint, sess, location) ==
    [Exchange(endpoint, sess) EXCEPT !.status = 302, !.location = location]

\* CropPrediction.to_dict
to_dict(row) ==
    [id |-> row.id, image_name |-> row.image_name,
     prediction |-> row.prediction, confidence |-> row.confidence,
     treatment |-> row.treatment]

ToDicts(rows) == [i \in 1..Len(rows) |-> to_dict(rows[i])]

\* index sends a logged-in browser to the dashboard and shows the login page
\* otherwise; every other page sends a browser without a session to index.
PageResponse(page, sess) ==
    IF page = "index"
    THEN IF sess # NoUser THEN Redirect(page, sess, "/dashboard")
         ELSE [Exchange(page, sess) EXCEPT !.status = 200, !.body = "login"]
    ELSE IF sess = NoUser THEN Redirect(page, sess, "/")
         ELSE [Exchange(page, sess) EXCEPT !.status = 200, !.body = page]

\* POST /login, with the redirect it answers
LoginRequest ==
    \E username \in Usernames, password \in Passwords :
        /\ session' = LoginSession(session, username, password)
        /\ exchange' =
              [Redirect("login", session,
                        IF username = "123456" /\ password = "1234"
                        THEN "/dashboard" ELSE "/?error=1")
                  EXCEPT !.username = username, !.password = password]
        /\ UNCHANGED <<users, predictions, rng, pc, cookie, upload, resp>>

\* GET /logout, with the redirect it answers
LogoutRequest ==
    /\ session' = NoUser
    /\ exchange' = Redirect("logout", session, "/")
    /\ UNCHANGED <<users, predictions, rng, pc, cookie, upload, resp>>

\* GET / , /dashboard, /capture, /upload, /result, /history
PageRequest ==
    \E page \in Pages :
        /\ exchange' = PageResponse(page, session)
        /\ UNCHANGED <<session, users, predictions, rng, pc, cookie, upload,
                       resp>>

\* GET /api/history
ApiHistoryRequest ==
    \E dbOk \in BOOLEAN :
        /\ exchange' =
              LET found == api_history(predictions, session)
              IN IF session # NoUser /\ ~dbOk
                 THEN [Exchange("api_history", session) EXCEPT !.status = 500]
                 ELSE [Exchange("api_history", session) EXCEPT
                          !.status = found.status,
                          !.rows = ToDicts(found.predictions),
                          !.total = Len(found.predictions)]
        /\ UNCHANGED <<session, users, predictions, rng, pc, cookie, upload,
                       resp>>

\* GET /stats: the count of all records and the 5 newest of them
StatsRequest ==
    \E dbOk \in BOOLEAN :
        /\ exchange' =
              LET recent == Reversed(predictions)
              IN IF ~dbOk
                 THEN [Exchange("stats", session) EXCEPT !.status = 500]
                 ELSE [Exchange("stats", session) EXCEPT
                          !.status = 200,
                          !.rows = ToDicts(IF Len(recent) <= StatsLimit
                                           THEN recent
                                           ELSE SubSeq(recent, 1, StatsLimit)),
                          !.total = Len(predictions)]
        /\ UNCHANGED <<session, users, predictions, rng, pc, cookie, upload,
                       resp>>

\* create_user(username, password) of users.py: it returns when the name is
\* taken; otherwise User(username=..., password_hash=...) raises TypeError,
\* User having no attribute password_hash, before anything is added.
create_user ==
    \E username \in Usernames, password \in Passwords :
        /\ exchange' =
              [Exchange("create_user", NoUser) EXCEPT
                  !.username = username, !.password = password,
                  !.body = IF UsersNamed(username) # {} THEN "already exists"
                           ELSE "TypeError"]
        /\ users' = users
        /\ UNCHANGED <<session, predictions, rng, pc, cookie, upload, resp>>

NextAuth ==
    \/ LoginRequest
    \/ LogoutRequest
    \/ PageRequest
    \/ ApiHistoryRequest
    \/ StatsRequest
    \/ create_user
    \/ \E r \in Requests : Arrive(r)
    \/ \E r \in Requests : Gate(r)
    \/ \E r \in Requests : Match(r)

\* One browser and one /predict request, with every endpoint's answer kept.
AuthSpec == InitSeq /\ [][NextAuth]_vars

\* the answer kept in e is the one a browser without a session must get: a
\* redirect to the login page for the pages, 401 and no record for the history
Refused(e) ==
    /\ e.endpoint \in GatedPages =>
          e.status = 302 /\ e.location = "/" /\ e.body = ""
    /\ e.endpoint = "api_history" =>
          e.status = 401 /\ e.rows = <<>>

\* C23: over any sequence of logins, failed logins and logouts, the session
\* comes to hold a username only by a login with '123456' and '1234', a
\* logout empties it, a failed login leaves it as it was, and a request made
\* without a session is refused: 401 from /predict (with nothing saved) and
\* /api/history, a redirect to the login page from the five pages.
C23_AccessGating ==
    [][/\ (session' # session /\ session' # NoUser) =>
             /\ exchange'.endpoint = "login"
             /\ exchange'.username = "123456"
             /\ exchange'.password = "1234"
             /\ session' = "123456"
       /\ exchange'.endpoint = "logout" => session' = NoUser
       /\ (exchange'.endpoint = "login"
           /\ ~(exchange'.username = "123456" /\ exchange'.password = "1234"))
          => session' = session
       /\ exchange'.cookie = NoUser => Refused(exchange')
       /\ \A r \in Requests :
             (Gates(r) /\ cookie[r] = NoUser) =>
                /\ resp'[r] = ErrorResponse(401, "Unauthorized access")
                /\ predictions' = predictions]_vars

\* after a login, a classified request and a logout, the history is refused
C23_Witness ==
    /\ exchange.endpoint = "api_history"
    /\ exchange.status = 401
    /\ session = NoUser
    /\ \E r \in Requests : Classified(r) /\ cookie[r] = "123456"

\* the ids of the records owned by the user named username
OwnedBy(username) ==
    IF username = NoUser \/ UsersNamed(username) = {} THEN {}
    ELSE {predictions[i].id : i \in
             {j \in 1..Len(predictions) :
                 predictions[j].user_id = FirstUserNamed(username).id}}

\* C24: records are returned only to a request whose session holds a
\* username, and only records owned by that user, at most 20 of them; no
\* endpoint returns records to a request without a session.
C24_HistoryConfidential ==
    /\ exchange.cookie = NoUser => exchange.rows = <<>>
    /\ Len(exchange.rows) <= HistoryLimit
    /\ \A i \in 1..Len(exchange.rows) :
          exchange.rows[i].id \in OwnedBy(exchange.cookie)

\* C25: after create_user(username, password) there is exactly one user row
\* with that username.
C25_CreateUserAddsOnce ==
    exchange.endpoint = "create_user" =>
        Cardinality(UsersNamed(exchange.username)) = 1

=============================================================================
